---- MODULE Spec2Model ----
(***************************************************************************)
(* Model of beerbot-go: the order-decision engine (internal/decision), the *)
(* role-history extraction and the buffered HTTP decision handler          *)
(* (internal/api).                                                         *)
(*                                                                         *)
(* Go slices are 0-based; sequences here are 1-based, so history[i] of the *)
(* source is history[i + 1] of the model.  Go's int is 64 bits wide; the   *)
(* values of the model stay far below that width, so integers are          *)
(* unbounded here.                                                         *)
(***************************************************************************)
EXTENDS Integers, Sequences, FiniteSets, TLC

VARIABLES calls, ma, ext, http

vars == <<calls, ma, ext, http>>

-----------------------------------------------------------------------------
(* Bounds of the model *)

\* longest role history given to the decision engine
MaxLen == 2

\* longest history given to the demand forecaster alone
MaxMaLen == 3

\* largest number of weeks in a weekly request
MaxWeeks == 2

-----------------------------------------------------------------------------
(* internal/decision/model.go *)

RS(inv, back, inc, arr) ==
    [Inventory |-> inv, Backlog |-> back, IncomingOrders |-> inc, ArrivingShipments |-> arr]

\* RoleState{} : the zero value of the struct
ZeroRoleState == RS(0, 0, 0, 0)

\* the observations the inputs are drawn from
RoleStates ==
    { ZeroRoleState,
      RS(12, 0, 4, 4),
      RS(5, 2, 8, 0),
      RS(0, 3, 5, -1),
      RS(20, 0, -3, 6),
      RS(2, 1, 7, 2) }

OrderValues == {-2, 5}

Windows == -1 .. (MaxLen + 1)

SafetyStocks == {0, 10}

SeqsUpTo(S, n) == UNION { [1..k -> S] : k \in 0..n }

\* the four roles the handler decides for
Roles == {"retailer", "wholesaler", "distributor", "factory"}

\* a Go map with string keys, as a function on the set of its keys
EmptyMap == [k \in {} |-> 0]

\* WeekState: Roles is a map role -> RoleState, Orders a map role -> int
WS(roles, orders) == [Roles |-> roles, Orders |-> orders]

\* ExtractRoleHistory that leaves out the weeks lacking the role
RECURSIVE ExtractRoleHistorySkipping(_, _)
ExtractRoleHistorySkipping(weeks, role) ==
    IF Len(weeks) = 0 THEN <<>>
    ELSE LET w    == weeks[Len(weeks)]
             init == ExtractRoleHistorySkipping(SubSeq(weeks, 1, Len(weeks) - 1), role)
         IN  IF role \notin DOMAIN w.Roles
             THEN init
             ELSE Append(init, w.Roles[role])

\* lines 18-29: out grows by one entry per week, in the order of weeks
RECURSIVE ExtractRoleHistory(_, _)
ExtractRoleHistory(weeks, role) ==
    IF Len(weeks) = 0 THEN <<>>
    ELSE LET w    == weeks[Len(weeks)]
             init == ExtractRoleHistory(SubSeq(weeks, 1, Len(weeks) - 1), role)
         IN  IF role \notin DOMAIN w.Roles
             THEN Append(init, ZeroRoleState)
             ELSE Append(init, w.Roles[role])

\* ExtractRoleOrders: the order the role placed in each week, 0 where the
\* week records none, index-aligned with the weeks
ExtractRoleOrders(weeks, role) ==
    [k \in 1..Len(weeks) |->
        IF role \in DOMAIN weeks[k].Orders THEN weeks[k].Orders[role] ELSE 0]

-----------------------------------------------------------------------------
(* internal/decision/blackbox.go *)

\* Go's integer division truncates toward zero (the divisor is positive here)
GoDiv(a, b) == IF a >= 0 THEN a \div b ELSE -((-a) \div b)

\* the loop of movingAverageIncomingOrders: for i := start; i < n; i++
RECURSIVE maLoop(_, _, _, _)
maLoop(history, i, sum, count) ==
    IF i < Len(history)
    THEN maLoop(history, i + 1, sum + history[i + 1].IncomingOrders, count + 1)
    ELSE <<sum, count>>

\* movingAverageIncomingOrders dividing by the window instead of the count
movingAverageByWindow(history, window) ==
    LET w     == IF window < 1 THEN 1 ELSE window
        n     == Len(history)
        start == IF n - w < 0 THEN 0 ELSE n - w
        r     == maLoop(history, start, 0, 0)
    IN  IF r[2] = 0 THEN 0 ELSE GoDiv(r[1], w)

movingAverageIncomingOrders(history, window) ==
    LET w     == IF window < 1 THEN 1 ELSE window
        n     == Len(history)
        start == IF n - w < 0 THEN 0 ELSE n - w
        r     == maLoop(history, start, 0, 0)
    IN  IF r[2] = 0 THEN 0 ELSE GoDiv(r[1], r[2])

\* pipelineStep as a plain running sum, without the clamp of lines 26-28
pipelineStepNoClamp(roleHistory, roleOrders, i, pipeline) ==
    LET p1 == IF i < Len(roleOrders) THEN pipeline + roleOrders[i + 1] ELSE pipeline
    IN  p1 - roleHistory[i + 1].ArrivingShipments

\* one iteration of the pipeline loop of BlackBoxOrderWithPipeline, at index i
pipelineStep(roleHistory, roleOrders, i, pipeline) ==
    LET p1 == IF i < Len(roleOrders) THEN pipeline + roleOrders[i + 1] ELSE pipeline
        p2 == p1 - roleHistory[i + 1].ArrivingShipments
    IN  IF p2 < 0 THEN 0 ELSE p2

\* assumed lead time
L == 2

\* finalOrder with the target sized by the lead time alone: forecast * L
finalOrderLeadOnly(last, forecast, pipeline, safetyStock) ==
    LET targetPosition    == forecast * L
        inventoryPosition == last.Inventory - last.Backlog + pipeline
        order             == targetPosition - inventoryPosition
    IN  IF order < 0 THEN 0 ELSE order

\* finalOrder with the safety stock added to the target position
finalOrderWithSafety(last, forecast, pipeline, safetyStock) ==
    LET targetPosition    == forecast * (L + 1) + safetyStock
        inventoryPosition == last.Inventory - last.Backlog + pipeline
        order             == targetPosition - inventoryPosition
    IN  IF order < 0 THEN 0 ELSE order

\* finalOrder without the clamp of lines 37-39
finalOrderNoClamp(last, forecast, pipeline, safetyStock) ==
    LET targetPosition    == forecast * (L + 1)
        inventoryPosition == last.Inventory - last.Backlog + pipeline
    IN  targetPosition - inventoryPosition

\* the lines after the loop: target position, inventory position, clamped order
finalOrder(last, forecast, pipeline, safetyStock) ==
    LET targetPosition    == forecast * (L + 1)
        inventoryPosition == last.Inventory - last.Backlog + pipeline
        order             == targetPosition - inventoryPosition
    IN  IF order < 0 THEN 0 ELSE order

RECURSIVE pipelineLoop(_, _, _, _)
pipelineLoop(roleHistory, roleOrders, i, pipeline) ==
    IF i < Len(roleHistory)
    THEN pipelineLoop(roleHistory, roleOrders, i + 1,
                      pipelineStep(roleHistory, roleOrders, i, pipeline))
    ELSE pipeline

\* the function run from entry to return, uninterrupted
BlackBoxOrderWithPipeline(roleHistory, roleOrders, safetyStock, window) ==
    IF Len(roleHistory) = 0
    THEN 10
    ELSE finalOrder(roleHistory[Len(roleHistory)],
                    movingAverageIncomingOrders(roleHistory, window),
                    pipelineLoop(roleHistory, roleOrders, 0, 0),
                    safetyStock)

-----------------------------------------------------------------------------
(* Invocations of BlackBoxOrderWithPipeline, one record per invocation.     *)
(* pc: "entry" before line 12, "loop" at the loop head of line 21, "done"   *)
(* after the return.                                                        *)

NewCall(h, o, s, w) ==
    [roleHistory |-> h, roleOrders |-> o, safetyStock |-> s, window |-> w,
     pc |-> "entry", i |-> 0, pipeline |-> 0, forecast |-> 0,
     last |-> ZeroRoleState, ret |-> 0]

\* Entry with the empty history falling through to an order of 0
EntryZeroFallback(p) ==
    /\ calls[p].pc = "entry"
    /\ LET c == calls[p] IN
       IF Len(c.roleHistory) = 0
       THEN calls' = [calls EXCEPT ![p].pc = "done", ![p].ret = 0]
       ELSE calls' = [calls EXCEPT
                        ![p].last = c.roleHistory[Len(c.roleHistory)],
                        ![p].forecast = movingAverageIncomingOrders(c.roleHistory, c.window),
                        ![p].pipeline = 0,
                        ![p].i = 0,
                        ![p].pc = "loop"]
    /\ UNCHANGED <<ma, ext, http>>

\* lines 12-20: the empty-history return, last, forecast, pipeline := 0
Entry(p) ==
    /\ calls[p].pc = "entry"
    /\ LET c == calls[p] IN
       IF Len(c.roleHistory) = 0
       THEN calls' = [calls EXCEPT ![p].pc = "done", ![p].ret = 10]
       ELSE calls' = [calls EXCEPT
                        ![p].last = c.roleHistory[Len(c.roleHistory)],
                        ![p].forecast = movingAverageIncomingOrders(c.roleHistory, c.window),
                        ![p].pipeline = 0,
                        ![p].i = 0,
                        ![p].pc = "loop"]
    /\ UNCHANGED <<ma, ext, http>>

\* LoopBody with the running total kept in a package-level variable that
\* every invocation writes
LoopBodyShared(p) ==
    /\ calls[p].pc = "loop"
    /\ calls[p].i < Len(calls[p].roleHistory)
    /\ LET c   == calls[p]
           new == pipelineStep(c.roleHistory, c.roleOrders, c.i, c.pipeline)
       IN  calls' = [q \in DOMAIN calls |->
                       IF q = p
                       THEN [calls[q] EXCEPT !.pipeline = new, !.i = c.i + 1]
                       ELSE [calls[q] EXCEPT !.pipeline = new]]
    /\ UNCHANGED <<ma, ext, http>>

\* lines 21-29: one iteration of the loop
LoopBody(p) ==
    /\ calls[p].pc = "loop"
    /\ calls[p].i < Len(calls[p].roleHistory)
    /\ LET c == calls[p] IN
       calls' = [calls EXCEPT
                   ![p].pipeline = pipelineStep(c.roleHistory, c.roleOrders, c.i, c.pipeline),
                   ![p].i = c.i + 1]
    /\ UNCHANGED <<ma, ext, http>>

\* lines 31-40: the loop has ended; compute and return the order
Finish(p) ==
    /\ calls[p].pc = "loop"
    /\ ~(calls[p].i < Len(calls[p].roleHistory))
    /\ LET c == calls[p] IN
       calls' = [calls EXCEPT
                   ![p].ret = finalOrder(c.last, c.forecast, c.pipeline, c.safetyStock),
                   ![p].pc = "done"]
    /\ UNCHANGED <<ma, ext, http>>

-----------------------------------------------------------------------------
(* internal/api: Config, defaultOrders and NewDecisionHandlerBuffered *)

\* defaultOrders(): 10 for each of the four roles
defaultOrders == [kind |-> "orders", orders |-> [r \in Roles |-> 10]]

\* the cap applied whenever MaxOrder is not negative
capOrderAlways(o, maxOrder) == IF maxOrder >= 0 /\ o > maxOrder THEN maxOrder ELSE o

\* lines 215-217: the cap of the handler
capOrder(o, maxOrder) == IF maxOrder > 0 /\ o > maxOrder THEN maxOrder ELSE o

\* lines 208-223: the order of one role
roleOrder(weeks, role, cfg) ==
    capOrder(BlackBoxOrderWithPipeline(ExtractRoleHistory(weeks, role),
                                       ExtractRoleOrders(weeks, role),
                                       cfg.SafetyStock, cfg.MAWindow),
             cfg.MaxOrder)

\* The body of a request, as the handler's decoding sees it:
\*   readable  - readAllLimited returns no error
\*   handshake - the value json.Unmarshal leaves in hs.Handshake
\*   typed     - json.Unmarshal into weeklyRequest returns no error
\*   weeks     - the value it leaves in req.Weeks
\* Bytes that are not JSON leave handshake FALSE and typed FALSE.
Body(readable, handshake, typed, weeks) ==
    [readable |-> readable, handshake |-> handshake, typed |-> typed, weeks |-> weeks]

\* lines 165-226: the response written for one request
Respond(method, body, cfg) ==
    IF method # "POST" THEN defaultOrders
    ELSE IF ~body.readable THEN defaultOrders
    ELSE IF body.handshake THEN [kind |-> "handshake", orders |-> EmptyMap]
    ELSE IF ~body.typed \/ Len(body.weeks) = 0 THEN defaultOrders
    ELSE [kind |-> "orders", orders |-> [r \in Roles |-> roleOrder(body.weeks, r, cfg)]]

ServeHTTP ==
    /\ http.pc = "request"
    /\ http' = [http EXCEPT !.pc = "responded",
                            !.resp = Respond(http.method, http.body, http.cfg)]
    /\ UNCHANGED <<calls, ma, ext>>

-----------------------------------------------------------------------------
(* Calls of the two pure functions of the decision package *)

MaCall ==
    /\ ma.pc = "call"
    /\ ma' = [ma EXCEPT !.pc = "done",
                        !.ret = movingAverageIncomingOrders(ma.history, ma.window)]
    /\ UNCHANGED <<calls, ext, http>>

ExtCall ==
    /\ ext.pc = "call"
    /\ ext' = [ext EXCEPT !.pc = "done",
                          !.ret = ExtractRoleHistory(ext.weeks, ext.role)]
    /\ UNCHANGED <<calls, ma, http>>

-----------------------------------------------------------------------------
(* Idle values of the components a specification does not exercise *)

IdleMa == [pc |-> "idle", history |-> <<>>, window |-> 0, ret |-> 0]
IdleExt == [pc |-> "idle", weeks |-> <<>>, role |-> "", ret |-> <<>>]
IdleHttp == [pc |-> "idle", method |-> "", body |-> Body(FALSE, FALSE, FALSE, <<>>),
             cfg |-> [SafetyStock |-> 0, MAWindow |-> 1, MaxOrder |-> 0],
             resp |-> [kind |-> "none", orders |-> EmptyMap]]

-----------------------------------------------------------------------------
(* One invocation of the decision engine on any input *)

CallInputs ==
    { NewCall(h, o, s, w) : h \in SeqsUpTo(RoleStates, MaxLen),
                            o \in SeqsUpTo(OrderValues, MaxLen + 1),
                            s \in SafetyStocks,
                            w \in Windows }

Init ==
    /\ calls \in [{1} -> CallInputs]
    /\ ma = IdleMa
    /\ ext = IdleExt
    /\ http = IdleHttp

Next ==
    \E p \in DOMAIN calls :
        \/ Entry(p)
        \/ LoopBody(p)
        \/ Finish(p)

Spec == Init /\ [][Next]_vars

-----------------------------------------------------------------------------
(* Two invocations running concurrently, their steps interleaved *)

ConcRoleStates == { RS(12, 0, 4, 4), RS(0, 3, 5, -1) }

ConcOrders == { <<>>, <<5>>, <<5, -2, 5, 5>> }

ConcWindows == {1, 3}

ConcInputs ==
    { NewCall(h, o, s, w) : h \in SeqsUpTo(ConcRoleStates, MaxLen),
                            o \in ConcOrders,
                            s \in SafetyStocks,
                            w \in ConcWindows }

InitConc ==
    /\ calls \in [{1, 2} -> ConcInputs]
    /\ ma = IdleMa
    /\ ext = IdleExt
    /\ http = IdleHttp

SpecConc == InitConc /\ [][Next]_vars

-----------------------------------------------------------------------------
(* The demand forecaster called on its own *)

IncomingValues == {-7, -3, 0, 5, 6, 10}

MaHistories == SeqsUpTo({ RS(0, 0, v, 0) : v \in IncomingValues }, MaxMaLen)

MaWindows == -1 .. (MaxMaLen + 1)

InitMa ==
    /\ ma \in { [pc |-> "call", history |-> h, window |-> w, ret |-> 0] :
                    h \in MaHistories, w \in MaWindows }
    /\ calls = [p \in {} |-> 0]
    /\ ext = IdleExt
    /\ http = IdleHttp

NextMa == MaCall

SpecMa == InitMa /\ [][NextMa]_vars

-----------------------------------------------------------------------------
(* Weekly data: what a week records for the roles, and the orders placed *)

RoleMaps ==
    { EmptyMap,
      [r \in {"retailer"} |-> RS(12, 0, 4, 4)],
      [r \in {"retailer", "wholesaler", "distributor"} |->
          IF r = "retailer" THEN RS(5, 2, 8, 0)
          ELSE IF r = "wholesaler" THEN RS(0, 3, 5, -1) ELSE RS(20, 0, -3, 6)],
      [r \in Roles |-> IF r = "factory" THEN RS(2, 1, 7, 2) ELSE RS(0, 0, 4, 0)],
      [r \in Roles |-> IF r = "retailer" THEN RS(30, 0, 1, 9) ELSE RS(0, 6, 9, 3)] }

OrderMaps ==
    { EmptyMap,
      [r \in {"retailer", "factory"} |-> 5],
      [r \in Roles |-> IF r = "wholesaler" THEN -2 ELSE 4],
      [r \in {"distributor"} |-> 12] }

WeekStates == { WS(f, g) : f \in RoleMaps, g \in OrderMaps }

WeekLists == SeqsUpTo(WeekStates, MaxWeeks)

-----------------------------------------------------------------------------
(* ExtractRoleHistory called on its own *)

RoleNames == Roles \cup {"brewer"}

InitExt ==
    /\ ext \in { [pc |-> "call", weeks |-> ws, role |-> r, ret |-> <<>>] :
                     ws \in WeekLists, r \in RoleNames }
    /\ calls = [p \in {} |-> 0]
    /\ ma = IdleMa
    /\ http = IdleHttp

NextExt == ExtCall

SpecExt == InitExt /\ [][NextExt]_vars

-----------------------------------------------------------------------------
(* One request to the buffered decision handler *)

Methods == {"POST", "GET"}

\* configurations that pass Config.Validate
Configs ==
    { [SafetyStock |-> 10, MAWindow |-> w, MaxOrder |-> m] : w \in {1, 4}, m \in {0, 3, 14} }

\* unreadable; not JSON or wrongly typed; a handshake; a weekly request whose
\* decoding succeeds or fails
Bodies ==
    { Body(FALSE, FALSE, FALSE, <<>>),
      Body(TRUE, TRUE, TRUE, <<>>),
      Body(TRUE, TRUE, FALSE, <<>>) }
    \cup { Body(TRUE, FALSE, t, ws) : t \in BOOLEAN, ws \in WeekLists }

InitApi ==
    /\ http \in { [pc |-> "request", method |-> m, body |-> b, cfg |-> c,
                   resp |-> [kind |-> "none", orders |-> EmptyMap]] :
                     m \in Methods, b \in Bodies, c \in Configs }
    /\ calls = [p \in {} |-> 0]
    /\ ma = IdleMa
    /\ ext = IdleExt

NextApi == ServeHTTP

SpecApi == InitApi /\ [][NextApi]_vars

-----------------------------------------------------------------------------
(* Properties of the decision engine *)

Max0(x) == IF x < 0 THEN 0 ELSE x

Min(a, b) == IF a < b THEN a ELSE b

\* orders[k] of the claim: the k-th order when it exists, else 0 (1-based)
OrderAt(o, k) == IF k <= Len(o) THEN o[k] ELSE 0

\* the chronological fold p := max(0, p + orders[k] - arrivingShipments[k])
\* over the first k observations, starting from 0
RECURSIVE PipelineFold(_, _, _)
PipelineFold(h, o, k) ==
    IF k = 0 THEN 0
    ELSE Max0(PipelineFold(h, o, k - 1) + OrderAt(o, k) - h[k].ArrivingShipments)

\* sum of incomingOrders over the last k observations
RECURSIVE SumLast(_, _)
SumLast(h, k) ==
    IF k = 0 THEN 0
    ELSE h[Len(h) - k + 1].IncomingOrders + SumLast(h, k - 1)

\* q is the quotient of s by k > 0, truncated toward zero
IsTruncQuot(q, s, k) ==
    /\ s >= 0 => (k * q <= s /\ s < k * (q + 1))
    /\ s < 0  => (k * (q - 1) < s /\ s <= k * q)

WindowLen(h, w) == Min(IF w < 1 THEN 1 ELSE w, Len(h))

\* the moving-average forecast as the specification words it
AverageOver(h, w) ==
    CHOOSE q \in -100..100 : IsTruncQuot(q, SumLast(h, WindowLen(h, w)), WindowLen(h, w))

Done(c) == c.pc = "done"

\* C1: for a non-empty history the returned order is
\* max(0, forecast*3 - (last.inventory - last.backlog + pipeline)), pipeline
\* being the clamped chronological fold with missing orders counted as 0.
C1_OrderFormula ==
    \A p \in DOMAIN calls :
        LET c == calls[p]
            h == c.roleHistory
        IN  (Done(c) /\ Len(h) > 0) =>
                c.ret = Max0(AverageOver(h, c.window) * 3
                             - (h[Len(h)].Inventory - h[Len(h)].Backlog
                                + PipelineFold(h, c.roleOrders, Len(h))))

\* a returned positive order with goods in the pipeline and an order history
\* shorter than the history
C1_Witness ==
    \E p \in DOMAIN calls :
        LET c == calls[p] IN
            /\ Done(c)
            /\ Len(c.roleHistory) = 2
            /\ Len(c.roleOrders) = 1
            /\ c.pipeline > 0
            /\ c.ret > 0

\* C2: the running pipeline total is >= 0 after every iteration of the loop.
C2_PipelineNonNegative ==
    \A p \in DOMAIN calls :
        calls[p].pc \in {"loop", "done"} => calls[p].pipeline >= 0

\* after the first iteration, whose plain sum orders[0] - arriving[0] is negative
C2_Witness ==
    \E p \in DOMAIN calls :
        LET c == calls[p] IN
            /\ c.pc = "loop"
            /\ c.i = 1
            /\ OrderAt(c.roleOrders, 1) - c.roleHistory[1].ArrivingShipments < 0
            /\ c.pipeline = 0

\* C4: an empty history yields exactly 10, whatever the other parameters.
C4_EmptyHistoryFallback ==
    \A p \in DOMAIN calls :
        (Done(calls[p]) /\ Len(calls[p].roleHistory) = 0) => calls[p].ret = 10

C4_Witness ==
    \E p \in DOMAIN calls :
        LET c == calls[p] IN
            /\ Done(c)
            /\ Len(c.roleHistory) = 0
            /\ Len(c.roleOrders) > 0
            /\ c.safetyStock = 0
            /\ c.window = 0
            /\ c.ret = 10

\* C7: the function documented as BlackBoxOrder (the simple policy) returns
\* max(0, forecast + last.backlog + safetyStock - last.inventory) for every
\* non-empty history.
C7_SimplePolicy ==
    \A p \in DOMAIN calls :
        LET c == calls[p]
            h == c.roleHistory
        IN  (Done(c) /\ Len(h) > 0) =>
                c.ret = Max0(AverageOver(h, c.window) + h[Len(h)].Backlog
                             + c.safetyStock - h[Len(h)].Inventory)

\* C8: two invocations that differ at most in safetyStock return the same order.
C8_SafetyStockIgnored ==
    \A p, q \in DOMAIN calls :
        ( /\ Done(calls[p]) /\ Done(calls[q])
          /\ calls[p].roleHistory = calls[q].roleHistory
          /\ calls[p].roleOrders = calls[q].roleOrders
          /\ calls[p].window = calls[q].window )
        => calls[p].ret = calls[q].ret

C8_Witness ==
    \E p, q \in DOMAIN calls :
        /\ Done(calls[p]) /\ Done(calls[q])
        /\ calls[p].roleHistory = calls[q].roleHistory
        /\ Len(calls[p].roleHistory) > 0
        /\ calls[p].roleOrders = calls[q].roleOrders
        /\ calls[p].window = calls[q].window
        /\ calls[p].safetyStock # calls[q].safetyStock
        /\ calls[p].ret > 0

\* C9: an invocation interleaved with another returns what it returns when run
\* alone on its inputs, and invocations with identical inputs return identical
\* outputs.
C9_Independent ==
    /\ \A p \in DOMAIN calls :
           LET c == calls[p] IN
               Done(c) => c.ret = BlackBoxOrderWithPipeline(c.roleHistory, c.roleOrders,
                                                            c.safetyStock, c.window)
    /\ \A p, q \in DOMAIN calls :
           ( /\ Done(calls[p]) /\ Done(calls[q])
             /\ calls[p].roleHistory = calls[q].roleHistory
             /\ calls[p].roleOrders = calls[q].roleOrders
             /\ calls[p].safetyStock = calls[q].safetyStock
             /\ calls[p].window = calls[q].window )
           => calls[p].ret = calls[q].ret

\* both invocations returned, on different inputs, with different results
C9_Witness ==
    /\ DOMAIN calls = {1, 2}
    /\ Done(calls[1]) /\ Done(calls[2])
    /\ Len(calls[1].roleHistory) = 2
    /\ Len(calls[2].roleHistory) = 2
    /\ calls[1].roleHistory # calls[2].roleHistory
    /\ calls[1].pipeline # calls[2].pipeline
    /\ calls[1].ret # calls[2].ret

\* C3: the forecaster returns 0 on an empty history, otherwise the truncating
\* quotient of the sum of incomingOrders over the last
\* k = min(max(1, window), len(history)) observations by k, and the result is
\* >= 0 whenever all incomingOrders are >= 0.
C3_MovingAverage ==
    ma.pc = "done" =>
        LET h == ma.history
            k == WindowLen(h, ma.window)
        IN  /\ Len(h) = 0 => ma.ret = 0
            /\ Len(h) > 0 => IsTruncQuot(ma.ret, SumLast(h, k), k)
            /\ (\A j \in 1..Len(h) : h[j].IncomingOrders >= 0) => ma.ret >= 0

\* a window longer than the history, over a negative sum that k does not divide
C3_Witness ==
    /\ ma.pc = "done"
    /\ Len(ma.history) = 2
    /\ ma.window > Len(ma.history)
    /\ SumLast(ma.history, 2) < 0
    /\ ma.ret * 2 # SumLast(ma.history, 2)

\* C5: for a weekly request with at least one week each role's order is
\* min(policy value, maxOrder) when maxOrder > 0 and the policy value when
\* maxOrder = 0.
PolicyValue(weeks, role, cfg) ==
    BlackBoxOrderWithPipeline(ExtractRoleHistory(weeks, role), ExtractRoleOrders(weeks, role),
                              cfg.SafetyStock, cfg.MAWindow)

\* the request reaches the per-role loop of the handler
IsWeekly(h) ==
    /\ h.method = "POST"
    /\ h.body.readable /\ h.body.typed
    /\ ~h.body.handshake
    /\ Len(h.body.weeks) >= 1

C5_OrderCap ==
    (http.pc = "responded" /\ IsWeekly(http)) =>
        /\ http.resp.kind = "orders"
        /\ DOMAIN http.resp.orders = Roles
        /\ \A r \in Roles :
              LET v == PolicyValue(http.body.weeks, r, http.cfg) IN
                  /\ http.cfg.MaxOrder > 0 => http.resp.orders[r] = Min(v, http.cfg.MaxOrder)
                  /\ http.cfg.MaxOrder = 0 => http.resp.orders[r] = v

\* a positive cap that cuts one role's order and leaves another's alone
C5_Witness ==
    /\ http.pc = "responded"
    /\ IsWeekly(http)
    /\ http.cfg.MaxOrder > 0
    /\ \E r \in Roles : PolicyValue(http.body.weeks, r, http.cfg) > http.cfg.MaxOrder
    /\ \E r \in Roles :
          /\ PolicyValue(http.body.weeks, r, http.cfg) < http.cfg.MaxOrder
          /\ http.resp.orders[r] > 0

\* C6: every response that is not a handshake carries orders for exactly the
\* four roles, each a non-negative integer.
C6_FourNonNegativeOrders ==
    (http.pc = "responded" /\ http.resp.kind # "handshake") =>
        /\ http.resp.kind = "orders"
        /\ DOMAIN http.resp.orders = Roles
        /\ \A r \in Roles : http.resp.orders[r] \in Nat

\* a weekly response for weeks that lack some role, with an order of 0 and a
\* positive one
C6_Witness ==
    /\ http.pc = "responded"
    /\ IsWeekly(http)
    /\ \E k \in 1..Len(http.body.weeks) : DOMAIN http.body.weeks[k].Roles # Roles
    /\ \E r \in Roles : http.resp.orders[r] = 0
    /\ \E r \in Roles : http.resp.orders[r] > 0

\* C10: ExtractRoleHistory returns one entry per week, entry i being week i's
\* observation of the role when the week has one and the zero observation
\* otherwise.
C10_IndexAligned ==
    ext.pc = "done" =>
        /\ Len(ext.ret) = Len(ext.weeks)
        /\ \A k \in 1..Len(ext.weeks) :
              ext.ret[k] = IF ext.role \in DOMAIN ext.weeks[k].Roles
                           THEN ext.weeks[k].Roles[ext.role]
                           ELSE ZeroRoleState

\* the first week lacks the role and the second has it
C10_Witness ==
    /\ ext.pc = "done"
    /\ Len(ext.weeks) = 2
    /\ ext.role \notin DOMAIN ext.weeks[1].Roles
    /\ ext.role \in DOMAIN ext.weeks[2].Roles
    /\ ext.ret[2] # ZeroRoleState

====
